---- MODULE Spec2Model ----
(***************************************************************************)
(* Model of the L3GD20H gyro driver in src/l3gd/l3gd.go.                   *)
(*                                                                         *)
(* The driver holds a bus handle and a device address and nothing else.    *)
(* Every method is a short sequence of register transactions on the bus.   *)
(* The model keeps the device's register file, the transactions of the     *)
(* last call and what the call returned.  A call is one action: it runs    *)
(* the whole method, including the point where a bus transaction fails.    *)
(***************************************************************************)
EXTENDS Integers, Sequences, FiniteSets, TLC

VARIABLES
    address,  \* L3GD.address, set by NewL3GD
    dev,      \* the sensor's register file: register address -> byte
    op,       \* the last method called ("none" before the first call)
    hz,       \* the argument of SetFrequency
    sel,      \* SetFrequency's loop index i at its return, 1-based; 0: none
    log,      \* the bus transactions the last call issued, in order
    err,      \* the error the last call returned
    v,        \* the vector Read returned, <<X, Y, Z>>
    buf,      \* Read's local buffer `bytes` at its return
    pre       \* dev when the last call started

vars == <<address, dev, op, hz, sel, log, err, v, buf, pre>>

----------------------------------------------------------------------------
(* Constants of the driver.                                                *)

Byte == 0 .. 255

DefaultAddress == \h6b

regCtrl1 == \h20

regCtrl4 == \h23

regLowOdr == \h39

\* The register Read starts its burst at (the literal 0x27 in Read).
regStatus == \h27

\* The number of bytes Read asks for: make([]byte, 7).
BurstLen == 7

\* {thresholdHz, lowOdr, ctrl1}; Go indexes it from 0, the model from 1.
bitsLowodrDrForFrequency ==
    << <<12, 1, \h0f>>,
       <<25, 1, \h1f>>,
       <<50, 1, \h2f>>,
       <<100, 0, \h0f>>,
       <<200, 0, \h1f>>,
       <<400, 0, \h2f>>,
       <<800, 0, \h3f>> >>

----------------------------------------------------------------------------
(* Go's integer operators.                                                 *)

\* The number of bits the model carries a Go int with.  Read's operands fit
\* 16 signed bits, so every bit from 15 up is a copy of the sign, in the
\* operands and in their OR, whatever the width (32 or 64 in Go).
IntWidth == 24

RECURSIVE BitAnd(_, _)
\* a & b on non-negative integers.
BitAnd(a, b) ==
    IF a = 0 \/ b = 0 THEN 0
    ELSE (a % 2) * (b % 2) + 2 * BitAnd(a \div 2, b \div 2)

RECURSIVE BitOr(_, _)
\* a | b on non-negative integers.
BitOr(a, b) ==
    IF a = 0 THEN b
    ELSE IF b = 0 THEN a
    ELSE (IF a % 2 = 1 \/ b % 2 = 1 THEN 1 ELSE 0) + 2 * BitOr(a \div 2, b \div 2)

\* a &^ b on bytes (AND NOT).
BitClear(a, b) == BitAnd(a, 255 - b)

\* int8(b): the byte's bit pattern read as a signed 8-bit integer.
Int8(b) == IF b >= 128 THEN b - 256 ELSE b

\* byte(n): conversion of an int to a byte.
ToByte(n) == n % 256

\* The two's-complement bit pattern of a signed int, and back.
ToBits(x) == x % (2 ^ IntWidth)

FromBits(u) == IF u >= 2 ^ (IntWidth - 1) THEN u - 2 ^ IntWidth ELSE u

\* x | y on signed ints.
IntOr(x, y) == FromBits(BitOr(ToBits(x), ToBits(y)))

\* x << 8 on a signed int (no overflow at these magnitudes).
Shl8(x) == x * 256

----------------------------------------------------------------------------
(* Errors.                                                                 *)

NoError == [kind |-> "nil", NewDataNotAvailable |-> FALSE, NewDataWasOverwritten |-> FALSE]

\* Whatever error the bus returned, passed on as it is.
TransportError ==
    [kind |-> "transport", NewDataNotAvailable |-> FALSE, NewDataWasOverwritten |-> FALSE]

DataAvailabilityError(notAvailable, overwritten) ==
    [kind |-> "DataAvailabilityError",
     NewDataNotAvailable |-> notAvailable,
     NewDataWasOverwritten |-> overwritten]

\* The condition an error value stands for, in the order Error() tests the flags.
Outcome(e) ==
    IF e.kind = "nil" THEN "Fresh"
    ELSE IF e.kind = "transport" THEN "TransportFailure"
    ELSE IF e.NewDataNotAvailable THEN "NotYetAvailable"
    ELSE IF e.NewDataWasOverwritten THEN "Overwritten"
    ELSE "Unknown"

----------------------------------------------------------------------------
(* The bus (github.com/dasfoo/i2c), as the driver uses it.  A transaction  *)
(* either succeeds or returns an error; a write that returns an error      *)
(* leaves the register as it was.                                          *)

Tx(kind, addr, reg, val, ok) ==
    [kind |-> kind, addr |-> addr, reg |-> reg, val |-> val, ok |-> ok]

ReadByteFromReg(d, addr, reg, fails) ==
    [ok  |-> ~fails,
     val |-> IF fails THEN 0 ELSE d[reg],
     tx  |-> Tx("ReadByteFromReg", addr, reg, IF fails THEN 0 ELSE d[reg], ~fails)]

WriteByteToReg(d, addr, reg, val, fails) ==
    [ok  |-> ~fails,
     dev |-> IF fails THEN d ELSE [d EXCEPT ![reg] = val],
     tx  |-> Tx("WriteByteToReg", addr, reg, val, ~fails)]

\* A burst read of Len(b) registers into b.  Bit 7 of reg asks the sensor to
\* step its register pointer; the other bits name the first register.  n is
\* the number of bytes that arrived before the transaction ended; a
\* transaction that succeeds has n = Len(b).
ReadSliceFromReg(d, addr, reg, b, n, fails) ==
    [ok  |-> ~fails,
     buf |-> [i \in 1 .. Len(b) |-> IF i <= n THEN d[(reg % 128) + i - 1] ELSE b[i]],
     tx  |-> Tx("ReadSliceFromReg", addr, reg, Len(b), ~fails)]

----------------------------------------------------------------------------
(* The pure parts of the methods.                                          *)

\* A faulty Sleep value: & in place of &^, which keeps bit 3 and drops the rest.
SleepValueKeepsOnlyBit(bw) == BitAnd(bw, 8)

\* Sleep: bw &^ (1 << 3).
SleepValue(bw) == BitClear(bw, 8)

\* A faulty Wake value: 0xf0 written over the register in place of OR-ed in.
WakeValueOverwrites(bw) == \hf0

\* Wake: bw | 0xf0.
WakeValue(bw) == BitOr(bw, \hf0)

RECURSIVE Scan(_, _)
\* SetFrequency's loop from index i on: the index it returns at, or 0 when
\* the loop runs off the end of the table ("This should never happen").
Scan(i, h) ==
    IF i > Len(bitsLowodrDrForFrequency) THEN 0
    ELSE IF bitsLowodrDrForFrequency[i][1] >= h \/ i = Len(bitsLowodrDrForFrequency)
         THEN i
         ELSE Scan(i + 1, h)

RECURSIVE ScanStrict(_, _)
\* A faulty loop: > in place of >=, which skips a threshold equal to h.
ScanStrict(i, h) ==
    IF i > Len(bitsLowodrDrForFrequency) THEN 0
    ELSE IF bitsLowodrDrForFrequency[i][1] > h \/ i = Len(bitsLowodrDrForFrequency)
         THEN i
         ELSE ScanStrict(i + 1, h)

SelectIndexStrict(h) == ScanStrict(1, h)

SelectIndex(h) == Scan(1, h)

\* Read: (int(int8(hi)) << 8) | int(int8(lo)), then float64(), which is
\* exact at these magnitudes.
DecodeAxis(lo, hi) == IntOr(Shl8(Int8(hi)), Int8(lo))

\* Read: the vector from the buffer; bytes[k] is b[k + 1].
DecodeVector(b) ==
    << DecodeAxis(b[2], b[3]), DecodeAxis(b[4], b[5]), DecodeAxis(b[6], b[7]) >>

\* A faulty status test: the data-ready nibble tested before the overrun nibble.
StatusErrorLowFirst(s) ==
    IF BitAnd(s, \h0f) = 0 THEN DataAvailabilityError(TRUE, FALSE)
    ELSE IF BitAnd(s, \hf0) > 0 THEN DataAvailabilityError(FALSE, TRUE)
    ELSE NoError

\* A faulty status test: two independent ifs in place of if / else if.
StatusErrorBothFlags(s) ==
    IF BitAnd(s, \hf0) > 0 \/ BitAnd(s, \h0f) = 0
    THEN DataAvailabilityError(BitAnd(s, \h0f) = 0, BitAnd(s, \hf0) > 0)
    ELSE NoError

\* Read: the error from the status byte bytes[0].
StatusError(s) ==
    IF BitAnd(s, \hf0) > 0 THEN DataAvailabilityError(FALSE, TRUE)
    ELSE IF BitAnd(s, \h0f) = 0 THEN DataAvailabilityError(TRUE, FALSE)
    ELSE NoError

ZeroVector == <<0, 0, 0>>

----------------------------------------------------------------------------
(* The methods, as functions of the device state d, the driver's address   *)
(* a and the failing transaction: fail = k makes the k-th transaction the  *)
(* call issues return an error, fail = 0 none.                             *)

SleepCall(d, a, fail) ==
    LET rd == ReadByteFromReg(d, a, regCtrl1, fail = 1)
    IN  IF ~rd.ok
        THEN [dev |-> d, log |-> <<rd.tx>>, err |-> TransportError]
        ELSE LET wr == WriteByteToReg(d, a, regCtrl1, SleepValue(rd.val), fail = 2)
             IN  [dev |-> wr.dev,
                  log |-> <<rd.tx, wr.tx>>,
                  err |-> IF wr.ok THEN NoError ELSE TransportError]

WakeCall(d, a, fail) ==
    LET rd == ReadByteFromReg(d, a, regCtrl1, fail = 1)
    IN  IF ~rd.ok
        THEN [dev |-> d, log |-> <<rd.tx>>, err |-> TransportError]
        ELSE LET wr == WriteByteToReg(d, a, regCtrl1, WakeValue(rd.val), fail = 2)
             IN  [dev |-> wr.dev,
                  log |-> <<rd.tx, wr.tx>>,
                  err |-> IF wr.ok THEN NoError ELSE TransportError]

\* A faulty SetFrequency: CTRL1 written before LOW_ODR.
SetFrequencyCallCtrl1First(d, a, h, fail) ==
    LET w1 == WriteByteToReg(d, a, regCtrl4, 0, fail = 1)
        i  == SelectIndex(h)
    IN  IF ~w1.ok
        THEN [dev |-> w1.dev, log |-> <<w1.tx>>, err |-> TransportError, sel |-> 0]
        ELSE IF i = 0
        THEN [dev |-> w1.dev, log |-> <<w1.tx>>, err |-> NoError, sel |-> 0]
        ELSE LET e  == bitsLowodrDrForFrequency[i]
                 w2 == WriteByteToReg(w1.dev, a, regCtrl1, ToByte(e[3]), fail = 2)
             IN  IF ~w2.ok
                 THEN [dev |-> w2.dev, log |-> <<w1.tx, w2.tx>>,
                       err |-> TransportError, sel |-> i]
                 ELSE LET w3 == WriteByteToReg(w2.dev, a, regLowOdr, ToByte(e[2]), fail = 3)
                      IN  [dev |-> w3.dev,
                           log |-> <<w1.tx, w2.tx, w3.tx>>,
                           err |-> IF w3.ok THEN NoError ELSE TransportError,
                           sel |-> i]

\* A faulty SetFrequency: the error of the LOW_ODR write is not checked.
SetFrequencyCallIgnoresError(d, a, h, fail) ==
    LET w1 == WriteByteToReg(d, a, regCtrl4, 0, fail = 1)
        i  == SelectIndex(h)
    IN  IF ~w1.ok
        THEN [dev |-> w1.dev, log |-> <<w1.tx>>, err |-> TransportError, sel |-> 0]
        ELSE IF i = 0
        THEN [dev |-> w1.dev, log |-> <<w1.tx>>, err |-> NoError, sel |-> 0]
        ELSE LET e  == bitsLowodrDrForFrequency[i]
                 w2 == WriteByteToReg(w1.dev, a, regLowOdr, ToByte(e[2]), fail = 2)
                 w3 == WriteByteToReg(w2.dev, a, regCtrl1, ToByte(e[3]), fail = 3)
             IN  [dev |-> w3.dev,
                  log |-> <<w1.tx, w2.tx, w3.tx>>,
                  err |-> IF w3.ok THEN NoError ELSE TransportError,
                  sel |-> i]

SetFrequencyCall(d, a, h, fail) ==
    LET w1 == WriteByteToReg(d, a, regCtrl4, 0, fail = 1)
        i  == SelectIndex(h)
    IN  IF ~w1.ok
        THEN [dev |-> w1.dev, log |-> <<w1.tx>>, err |-> TransportError, sel |-> 0]
        ELSE IF i = 0
        THEN [dev |-> w1.dev, log |-> <<w1.tx>>, err |-> NoError, sel |-> 0]
        ELSE LET e  == bitsLowodrDrForFrequency[i]
                 w2 == WriteByteToReg(w1.dev, a, regLowOdr, ToByte(e[2]), fail = 2)
             IN  IF ~w2.ok
                 THEN [dev |-> w2.dev, log |-> <<w1.tx, w2.tx>>,
                       err |-> TransportError, sel |-> i]
                 ELSE LET w3 == WriteByteToReg(w2.dev, a, regCtrl1, ToByte(e[3]), fail = 3)
                      IN  [dev |-> w3.dev,
                           log |-> <<w1.tx, w2.tx, w3.tx>>,
                           err |-> IF w3.ok THEN NoError ELSE TransportError,
                           sel |-> i]

\* A faulty Read: the vector decoded before the bus error is looked at.
ReadCallDecodesFirst(d, a, fail, n) ==
    LET bytes == [i \in 1 .. BurstLen |-> 0]
        rs    == ReadSliceFromReg(d, a, BitOr(regStatus, 128), bytes,
                                  IF fail = 1 THEN n ELSE BurstLen, fail = 1)
    IN  [v   |-> DecodeVector(rs.buf),
         err |-> IF rs.ok THEN StatusError(rs.buf[1]) ELSE TransportError,
         buf |-> rs.buf,
         log |-> <<rs.tx>>]

\* n: the bytes the bus had put into the buffer when the burst ended; a
\* burst that succeeds has put all of them.
ReadCall(d, a, fail, n) ==
    LET bytes == [i \in 1 .. BurstLen |-> 0]
        rs    == ReadSliceFromReg(d, a, BitOr(regStatus, 128), bytes,
                                  IF fail = 1 THEN n ELSE BurstLen, fail = 1)
    IN  IF ~rs.ok
        THEN [v |-> ZeroVector, err |-> TransportError, buf |-> rs.buf, log |-> <<rs.tx>>]
        ELSE [v   |-> DecodeVector(rs.buf),
              err |-> StatusError(rs.buf[1]),
              buf |-> rs.buf,
              log |-> <<rs.tx>>]

----------------------------------------------------------------------------
(* The actions: one call of one method.                                    *)

Sleep(fail) ==
    LET r == SleepCall(dev, address, fail)
    IN  /\ op' = "Sleep"
        /\ dev' = r.dev /\ log' = r.log /\ err' = r.err
        /\ sel' = 0 /\ v' = ZeroVector /\ buf' = <<>>
        /\ pre' = dev
        /\ UNCHANGED <<address, hz>>

Wake(fail) ==
    LET r == WakeCall(dev, address, fail)
    IN  /\ op' = "Wake"
        /\ dev' = r.dev /\ log' = r.log /\ err' = r.err
        /\ sel' = 0 /\ v' = ZeroVector /\ buf' = <<>>
        /\ pre' = dev
        /\ UNCHANGED <<address, hz>>

SetFrequency(h, fail) ==
    LET r == SetFrequencyCall(dev, address, h, fail)
    IN  /\ op' = "SetFrequency"
        /\ hz' = h
        /\ dev' = r.dev /\ log' = r.log /\ err' = r.err /\ sel' = r.sel
        /\ v' = ZeroVector /\ buf' = <<>>
        /\ pre' = dev
        /\ UNCHANGED address

Read(fail, n) ==
    LET r == ReadCall(dev, address, fail, n)
    IN  /\ op' = "Read"
        /\ v' = r.v /\ err' = r.err /\ buf' = r.buf /\ log' = r.log
        /\ sel' = 0
        /\ pre' = dev
        /\ UNCHANGED <<address, dev, hz>>

----------------------------------------------------------------------------
(* Initial states: the driver as NewL3GD leaves it, a sensor in some       *)
(* register state, no call made yet.                                       *)

OutRegs == regStatus .. (regStatus + BurstLen - 1)

DevRegs == {regCtrl1, regCtrl4, regLowOdr} \cup OutRegs

\* A register file from its control registers and its output burst.
Device(c1, c4, lo, out) ==
    [r \in DevRegs |->
        IF r = regCtrl1 THEN c1
        ELSE IF r = regCtrl4 THEN c4
        ELSE IF r = regLowOdr THEN lo
        ELSE out[r - regStatus + 1]]

NewL3GD(a, d, h) ==
    /\ address = a /\ dev = d /\ hz = h
    /\ op = "none" /\ sel = 0 /\ log = <<>> /\ err = NoError
    /\ v = ZeroVector /\ buf = <<>> /\ pre = d

----------------------------------------------------------------------------
(* The main specification: the four methods called in any order on a       *)
(* sensor in one of a few register states.                                 *)

\* The rates the callers ask for.
HzCalls == {-1, 12, 13, 100, 800, 5000}

\* An output burst: status, then X, Y, Z low byte first.
SomeBurst == <<\h0f, \hff, \h7f, 0, \h80, 1, 0>>

Init ==
    \E a \in {DefaultAddress, \h6a}, c1 \in {0, \h6f, \hff}, c4 \in {0, \h30}, lo \in {0, 1} :
        NewL3GD(a, Device(c1, c4, lo, SomeBurst), 0)

Next ==
    \/ \E fail \in 0 .. 2 : Sleep(fail)
    \/ \E fail \in 0 .. 2 : Wake(fail)
    \/ \E h \in HzCalls, fail \in 0 .. 3 : SetFrequency(h, fail)
    \/ Read(0, BurstLen)
    \/ \E n \in {0, 3, BurstLen} : Read(1, n)

Spec == Init /\ [][Next]_vars

----------------------------------------------------------------------------
(* Power control alone: Sleep and Wake in any order, from every value of   *)
(* CTRL1.                                                                  *)

InitPower ==
    \E c1 \in Byte, c4 \in {0, \h30}, lo \in {0, 1} :
        NewL3GD(DefaultAddress, Device(c1, c4, lo, SomeBurst), 0)

NextPower ==
    \/ \E fail \in 0 .. 2 : Sleep(fail)
    \/ \E fail \in 0 .. 2 : Wake(fail)

SpecPower == InitPower /\ [][NextPower]_vars

----------------------------------------------------------------------------
(* Rate selection: a caller that asks for one rate hz, again and again.    *)

\* How far below 0 and above the last threshold the requested rates go.
HzMargin == 20

MaxThreshold == bitsLowodrDrForFrequency[Len(bitsLowodrDrForFrequency)][1]

HzRange == (0 - HzMargin) .. (MaxThreshold + HzMargin) \cup {-2147483647, -5000, 5000, 2147483647}

InitFreq ==
    \E h \in HzRange, lo \in {0, 1} :
        NewL3GD(DefaultAddress, Device(\hff, \h30, lo, SomeBurst), h)

NextFreq == \E fail \in 0 .. 3 : SetFrequency(hz, fail)

SpecFreq == InitFreq /\ [][NextFreq]_vars

----------------------------------------------------------------------------
(* Reading: a sensor whose output registers hold some burst.               *)

\* Sample words, as <<low byte, high byte>>.
WordSamples == { <<\hff, \h7f>>, <<0, \h80>>, <<1, 0>> }

Burst(s, x, y, z) == <<s, x[1], x[2], y[1], y[2], z[1], z[2]>>

InitRead ==
    \E s \in Byte, x \in WordSamples, y \in WordSamples, z \in WordSamples :
        NewL3GD(DefaultAddress, Device(\h0f, 0, 0, Burst(s, x, y, z)), 0)

NextRead ==
    \/ Read(0, BurstLen)
    \/ \E n \in {0, 3, BurstLen} : Read(1, n)

SpecRead == InitRead /\ [][NextRead]_vars

\* Every byte pair, on the three axes at once.
InitDecode ==
    \E lo \in Byte, hi \in Byte :
        NewL3GD(DefaultAddress, Device(\h0f, 0, 0, Burst(\h0f, <<lo, hi>>, <<lo, hi>>, <<lo, hi>>)), 0)

NextDecode ==
    \/ Read(0, BurstLen)
    \/ Read(1, BurstLen)

SpecDecode == InitDecode /\ [][NextDecode]_vars

----------------------------------------------------------------------------
(* Properties of Read.                                                     *)

\* The burst of the last call came back without a bus error.
BurstOk == op = "Read" /\ Len(log) = 1 /\ log[1].ok

\* The 16-bit two's-complement value of the word hi * 256 + lo.
Twos16(lo, hi) ==
    LET w == hi * 256 + lo
    IN  IF w < 32768 THEN w ELSE w - 65536

\* C1: after a burst that succeeded, each of X (bytes 1, 2), Y (bytes 3, 4)
\* and Z (bytes 5, 6) is the 16-bit two's-complement value of its byte pair,
\* for every pair of bytes.
C1_DecodeIsTwosComplement ==
    BurstOk =>
        /\ v[1] = Twos16(buf[2], buf[3])
        /\ v[2] = Twos16(buf[4], buf[5])
        /\ v[3] = Twos16(buf[6], buf[7])

\* C2, as stated: after a burst that succeeded, status 0x00 gives Fresh,
\* 0x0F gives NotYetAvailable, 0xF0 and 0xFF give Overwritten.
C2_StatusExamplesAsStated ==
    BurstOk =>
        /\ buf[1] = \h00 => Outcome(err) = "Fresh"
        /\ buf[1] = \h0f => Outcome(err) = "NotYetAvailable"
        /\ buf[1] = \hf0 => Outcome(err) = "Overwritten"
        /\ buf[1] = \hff => Outcome(err) = "Overwritten"

\* C2, amended: after a burst that succeeded, status 0x00 gives
\* NotYetAvailable, 0x0F gives Fresh (no error), 0xF0 and 0xFF give
\* Overwritten.
C2_StatusExamples ==
    BurstOk =>
        /\ buf[1] = \h00 => Outcome(err) = "NotYetAvailable"
        /\ buf[1] = \h0f => Outcome(err) = "Fresh" /\ err = NoError
        /\ buf[1] = \hf0 => Outcome(err) = "Overwritten"
        /\ buf[1] = \hff => Outcome(err) = "Overwritten"

C2_Witness == BurstOk /\ buf[1] = \h00 /\ Outcome(err) = "NotYetAvailable"

\* C7: a burst that fails makes Read return the bus error and the zero
\* vector, whatever the buffer holds; a burst that succeeds makes Read return
\* the decoding of bytes 1..6 of the output registers, whatever the status
\* byte, and no error but a DataAvailabilityError.  Read issues one
\* transaction: a burst of 7 bytes at 0x27 | 0x80 from the driver's address.
C7_ReadResultShape ==
    op = "Read" =>
        /\ Len(log) = 1
        /\ log[1] = Tx("ReadSliceFromReg", address, \ha7, 7, log[1].ok)
        /\ ~log[1].ok => err = TransportError /\ v = ZeroVector
        /\ log[1].ok =>
            /\ buf = [i \in 1 .. 7 |-> dev[regStatus + i - 1]]
            /\ v = << DecodeAxis(dev[\h28], dev[\h29]),
                      DecodeAxis(dev[\h2a], dev[\h2b]),
                      DecodeAxis(dev[\h2c], dev[\h2d]) >>
            /\ err.kind \in {"nil", "DataAvailabilityError"}

C7_Witness ==
    /\ op = "Read" /\ err = TransportError
    /\ buf[2] = \hff /\ buf[3] = \h7f /\ v = ZeroVector

\* C10: for every status byte s of a burst that succeeded: a non-zero high
\* nibble gives Overwritten alone; else a zero low nibble gives
\* NotYetAvailable alone; else no error.  Never a DataAvailabilityError with
\* neither flag or with both.
C10_StatusRule ==
    BurstOk =>
        LET s == buf[1]
        IN  /\ s \div 16 # 0 => err = DataAvailabilityError(FALSE, TRUE)
            /\ s \div 16 = 0 /\ s % 16 = 0 => err = DataAvailabilityError(TRUE, FALSE)
            /\ s \div 16 = 0 /\ s % 16 # 0 => err = NoError
            /\ Outcome(err) \in {"Fresh", "NotYetAvailable", "Overwritten"}
            /\ ~(err.NewDataNotAvailable /\ err.NewDataWasOverwritten)

C10_Witness == BurstOk /\ buf[1] = \h1f /\ Outcome(err) = "Overwritten"

----------------------------------------------------------------------------
(* Properties of Sleep and Wake.                                           *)

\* Bit k of byte b.
Bit(b, k) == (b \div (2 ^ k)) % 2

\* C5: a Wake that succeeds right after a Sleep that succeeded leaves the
\* power-enable bit of CTRL1 (bit 3, which Sleep cleared) set.
C5_WakeEnablesAfterSleep ==
    [][ (op = "Sleep" /\ err = NoError /\ op' = "Wake" /\ err' = NoError)
            => Bit(dev'[regCtrl1], 3) = 1 ]_vars

\* C6: a Sleep that succeeds leaves CTRL1 with bit 3 clear and its other
\* bits as they were, leaves every other register of the sensor as it was,
\* and has issued one read of CTRL1 and then one write to CTRL1.
C6_SleepFrame ==
    (op = "Sleep" /\ err = NoError) =>
        /\ Bit(dev[regCtrl1], 3) = 0
        /\ \A k \in (0 .. 7) \ {3} : Bit(dev[regCtrl1], k) = Bit(pre[regCtrl1], k)
        /\ \A r \in DevRegs \ {regCtrl1} : dev[r] = pre[r]
        /\ log = << Tx("ReadByteFromReg", address, regCtrl1, pre[regCtrl1], TRUE),
                    Tx("WriteByteToReg", address, regCtrl1, dev[regCtrl1], TRUE) >>

C6_Witness ==
    /\ op = "Sleep" /\ err = NoError
    /\ pre[regCtrl1] = \hff /\ dev[regCtrl1] = \hf7 /\ dev[regCtrl4] = \h30

----------------------------------------------------------------------------
(* Properties of SetFrequency.                                             *)

Threshold(i) == bitsLowodrDrForFrequency[i][1]

Entries == 1 .. Len(bitsLowodrDrForFrequency)

\* The entry the rule picks for h: the one with the smallest threshold that
\* is >= h, the last one when h is above every threshold.
Picked(h, i) ==
    IF \E j \in Entries : Threshold(j) >= h
    THEN /\ Threshold(i) >= h
         /\ \A j \in Entries : Threshold(j) >= h => Threshold(i) <= Threshold(j)
    ELSE i = Len(bitsLowodrDrForFrequency)

\* C3: for every hz, SetFrequency picks one entry of the table, the one the
\* rule above names; a larger hz never picks a smaller threshold; and the
\* call never returns without an error before it has written the rate
\* registers.
C3_SelectionRule ==
    (op = "SetFrequency" /\ log[1].ok) =>
        /\ sel \in Entries
        /\ Picked(hz, sel)
        /\ \A j \in Entries : Picked(hz, j) => j = sel
        /\ \A h \in HzRange :
            /\ h <= hz => Threshold(SelectIndex(h)) <= Threshold(sel)
            /\ h >= hz => Threshold(SelectIndex(h)) >= Threshold(sel)
        /\ err = NoError =>
            /\ Len(log) = 3
            /\ dev[regLowOdr] = bitsLowodrDrForFrequency[sel][2]
            /\ dev[regCtrl1] = bitsLowodrDrForFrequency[sel][3]

C3_Witness ==
    /\ op = "SetFrequency" /\ err = NoError
    /\ hz > MaxThreshold /\ Threshold(sel) = MaxThreshold

\* C4: a SetFrequency that returns no error has issued three writes to the
\* driver's address and nothing else: 0x00 to CTRL4, the picked entry's
\* lowOdr to LOW_ODR, the picked entry's ctrl1 to CTRL1, in this order
\* (hz = 100: 0x00, 0x00, 0x0F; hz = 12: 0x00, 0x01, 0x0F).  In no call does
\* the CTRL1 write come before the LOW_ODR write or the LOW_ODR write before
\* the CTRL4 write.
C4_WriteOrder ==
    op = "SetFrequency" =>
        /\ err = NoError =>
            /\ log = << Tx("WriteByteToReg", address, \h23, 0, TRUE),
                        Tx("WriteByteToReg", address, \h39,
                           bitsLowodrDrForFrequency[sel][2], TRUE),
                        Tx("WriteByteToReg", address, \h20,
                           bitsLowodrDrForFrequency[sel][3], TRUE) >>
            /\ Picked(hz, sel)
            /\ hz = 100 => <<log[1].val, log[2].val, log[3].val>> = <<0, 0, \h0f>>
            /\ hz = 12 => <<log[1].val, log[2].val, log[3].val>> = <<0, 1, \h0f>>
        /\ \A i \in DOMAIN log : \A j \in DOMAIN log :
            i < j => /\ ~(log[i].reg = \h20 /\ log[j].reg = \h39)
                     /\ ~(log[i].reg = \h39 /\ log[j].reg = \h23)
                     /\ ~(log[i].reg = \h20 /\ log[j].reg = \h23)

C4_Witness ==
    /\ op = "SetFrequency" /\ err = NoError /\ hz = 100
    /\ address = DefaultAddress /\ pre[regCtrl4] = \h30 /\ pre[regLowOdr] = 1

\* The writes of the last call that the bus completed.
CompletedWrites == {i \in DOMAIN log : log[i].kind = "WriteByteToReg" /\ log[i].ok}

\* What C8 says of every call: the transactions before the last one of the
\* call succeeded, the call returns the bus error exactly when its last
\* transaction failed, and no transaction is issued twice.
ShortCircuit ==
    /\ Len(log) >= 1
    /\ \A i \in 1 .. (Len(log) - 1) : log[i].ok
    /\ err = TransportError <=> ~log[Len(log)].ok
    /\ \A i \in DOMAIN log : \A j \in DOMAIN log :
        (log[i].kind = log[j].kind /\ log[i].reg = log[j].reg) => i = j

\* What C8 says of Sleep and Wake: a failed read of CTRL1 is followed by no
\* write, and a failed write leaves CTRL1 as it was.
PowerShortCircuit ==
    op \in {"Sleep", "Wake"} =>
        /\ ~log[1].ok => Len(log) = 1 /\ dev = pre
        /\ (Len(log) = 2 /\ ~log[2].ok) => dev[regCtrl1] = pre[regCtrl1]

\* SetFrequency's second write has failed.
SecondWriteFailed == op = "SetFrequency" /\ Len(log) >= 2 /\ ~log[2].ok

\* C8, as stated: the first failing transaction ends the call, which returns
\* the bus error; when SetFrequency's second write fails the third is not
\* issued and the state is that of two completed writes.
C8_ShortCircuitAsStated ==
    op # "none" =>
        /\ ShortCircuit
        /\ PowerShortCircuit
        /\ SecondWriteFailed =>
            /\ Len(log) = 2 /\ err = TransportError
            /\ Cardinality(CompletedWrites) = 2

\* C8, amended: as above, but when SetFrequency's second write fails the
\* state is that of the one write that completed: CTRL4 is 0x00 and every
\* other register is as it was.
C8_ShortCircuit ==
    op # "none" =>
        /\ ShortCircuit
        /\ PowerShortCircuit
        /\ SecondWriteFailed =>
            /\ Len(log) = 2 /\ err = TransportError
            /\ CompletedWrites = {1}
            /\ dev = [pre EXCEPT ![regCtrl4] = 0]

C8_Witness ==
    /\ SecondWriteFailed /\ err = TransportError
    /\ pre[regCtrl4] = \h30 /\ pre[regLowOdr] = 0 /\ log[2].val = 1

====
